---- MODULE Spec2Model ----
(***************************************************************************)
(* A model of bashlex/normalizer.py: normalize_ast (the recursive pass     *)
(* normalize / normalize_command with its logic-operator resolver),        *)
(* prune_ast, list_to_ast and to_tokens.                                   *)
(*                                                                         *)
(* Words are sequences of one-character strings, so that startswith,       *)
(* slicing, concatenation and split are computed and not looked up.        *)
(* A tree is an arena: a sequence of node records; a node is its index,    *)
(* and 0 is Python's None.                                                 *)
(***************************************************************************)
EXTENDS Integers, Sequences, FiniteSets, TLC

VARIABLES
    opts,       \* normalize_ast's keyword arguments
    raw,        \* the parse tree handed over by the parser (arena of bast nodes)
    rawRoot,    \* tree[0]
    nodes,      \* the normalized tree under construction (arena); node 1 is the root
    calls,      \* the Python call stack of normalize / normalize_command
    outcome,    \* "running", or how normalize_ast ended
    err,        \* the exception that ended it, "" when none
    tree0,      \* codec and pruner runs: the input tree as it was handed over
    pruned,     \* prune_ast(tree0)
    pruned2,    \* prune_ast(prune_ast(tree0))
    tokens,     \* to_tokens(tree0)
    rebuilt,    \* list_to_ast(tokens)
    phase       \* codec and pruner runs: what has been applied so far

vars == <<opts, raw, rawRoot, nodes, calls, outcome, err,
          tree0, pruned, pruned2, tokens, rebuilt, phase>>

None == 0

----------------------------------------------------------------------------
(* Bounds of the model.                                                    *)

\* words after the first one in a command
MaxParts == 3
\* nodes attached by the tree builder of the codec and pruner runs
MaxBuild == 4
\* words after "find" in a run of operands, operators and parentheses
MaxChain == 5

----------------------------------------------------------------------------
(* Words.                                                                  *)

w_find == <<"f", "i", "n", "d">>
w_ls == <<"l", "s">>
w_xargs == <<"x", "a", "r", "g", "s">>
w_head == <<"h", "e", "a", "d">>
w_tail == <<"t", "a", "i", "l">>
w_lparen == <<"(">>
w_rparen == <<")">>
w_bang == <<"!">>
w_not == <<"-", "n", "o", "t">>
w_prune == <<"-", "p", "r", "u", "n", "e">>
w_o == <<"-", "o">>
w_a == <<"-", "a">>
w_or == <<"-", "o", "r">>
w_and == <<"-", "a", "n", "d">>
w_name == <<"-", "n", "a", "m", "e">>
w_exec == <<"-", "e", "x", "e", "c">>
w_la == <<"-", "l", "a">>
w_l == <<"-", "l">>
w_all == <<"-", "-", "a", "l", "l">>
w_ddash == <<"-", "-">>
w_semi == <<";">>
w_plus == <<"+">>
w_x == <<"x">>
w_dot == <<".">>
w_braces == <<"{", "}">>
w_w == <<"-", "w">>
w_lw == <<"-", "l", "w">>
w_colons == <<"-", "-", "a", ":", ":", "b", ":", ":", "c">>

Digits == {"0", "1", "2", "3", "4", "5", "6", "7", "8", "9"}
Quotes == {"\"", "'"}

startswith(w, p) == Len(w) >= Len(p) /\ SubSeq(w, 1, Len(p)) = p
endswith(w, p) == Len(w) >= Len(p) /\ SubSeq(w, Len(w) - Len(p) + 1, Len(w)) = p
contains(w, c) == \E k \in 1..Len(w) : w[k] = c
\* str.isdigit(): non-empty and every character a digit
isdigit(w) == Len(w) > 0 /\ \A k \in 1..Len(w) : w[k] \in Digits
Tail1(w) == SubSeq(w, 2, Len(w))

binary_logic_operators ==
    {w_and, w_or, <<"|", "|">>, <<"&", "&">>, w_o, w_a}

right_associate_unary_logic_operators == {w_bang, w_not}
left_associate_unary_logic_operators == {w_prune}

----------------------------------------------------------------------------
(* The parser's nodes (bast.node): a kind, the word, the source span text  *)
(* cmd[pos[0]:pos[1]], the parts list (hasParts: the attribute exists) and *)
(* the command of a substitution.                                          *)

RawNode(k, w, s, ps, hp, c) ==
    [kind |-> k, word |-> w, src |-> s, parts |-> ps, hasParts |-> hp,
     command |-> c]

\* a word without sub-parts; quoted: the source span is the word in quotes
RawWord(w, quoted) ==
    RawNode("word", w, IF quoted THEN <<"\"">> \o w \o <<"\"">> ELSE w,
            <<>>, TRUE, None)

----------------------------------------------------------------------------
(* normalizer_node: the nodes of the normalized tree.                      *)

LEFT == "LEFT"
RIGHT == "RIGHT"

Node(k, v) ==
    [kind |-> k, value |-> v, arg_type |-> "", parent |-> None, lsb |-> None,
     rsb |-> None, children |-> <<>>, associate |-> ""]

ArgumentNode(v, t) == [Node("argument", v) EXCEPT !.arg_type = t]
FlagNode(v) == Node("flag", v)
HeadCommandNode(v) == Node("headcommand", v)
BinaryLogicOpNode(v) == Node("binarylogicop", v)
PipelineNode == Node("pipeline", <<>>)
CommandSubstitutionNode == Node("commandsubstitution", <<>>)
ProcessSubstitutionNode(v) == Node("processsubstitution", v)

UnaryLogicOpNode(v) ==
    [Node("unarylogicop", v) EXCEPT
        !.associate = IF v \in right_associate_unary_logic_operators THEN RIGHT
                      ELSE IF v \in left_associate_unary_logic_operators THEN LEFT
                      ELSE ""]

\* the arena with one more node; the new node is NewId(ns)
NewId(ns) == Len(ns) + 1
Alloc(ns, rec) == Append(ns, rec)

IndexOf(s, x) == CHOOSE k \in 1..Len(s) : s[k] = x /\ \A m \in 1..(k - 1) : s[m] # x
InSeq(s, x) == \E k \in 1..Len(s) : s[k] = x
\* list.remove(x): the first occurrence goes
RemoveFirst(s, x) ==
    LET k == IndexOf(s, x) IN SubSeq(s, 1, k - 1) \o SubSeq(s, k + 1, Len(s))
InsertAt(s, k, x) == SubSeq(s, 1, k - 1) \o <<x>> \o SubSeq(s, k, Len(s))
Last(s) == s[Len(s)]
Front(s) == SubSeq(s, 1, Len(s) - 1)

getNumChildren(ns, n) == Len(ns[n].children)
getRightChild(ns, n) ==
    IF Len(ns[n].children) >= 1 THEN Last(ns[n].children) ELSE None
addChild(ns, p, c) == [ns EXCEPT ![p].children = Append(@, c)]
\* list.remove raises ValueError when the child is not in the list
removeChild(ns, p, c) == [ns EXCEPT ![p].children = RemoveFirst(@, c)]
hasChild(ns, p, c) == InSeq(ns[p].children, c)

RECURSIVE getHeadCommand(_, _)
getHeadCommand(ns, n) ==
    IF n = None THEN None
    ELSE IF ns[n].kind = "headcommand" THEN n
    ELSE getHeadCommand(ns, ns[n].parent)

make_sibling(ns, l, r) ==
    LET a == IF l # None THEN [ns EXCEPT ![l].rsb = r] ELSE ns
    IN  IF r # None THEN [a EXCEPT ![r].lsb = l] ELSE a

make_parentchild(ns, p, c) ==
    [addChild(ns, p, c) EXCEPT ![c].parent = p]

grandparent(ns, n) == ns[ns[n].parent].parent

replaceChild(ns, p, child, new_child) ==
    LET index == IndexOf(ns[p].children, child)
        a == [ns EXCEPT ![new_child].parent = ns[child].parent]
        b == removeChild(a, p, child)
        c == [b EXCEPT ![p].children = InsertAt(@, index, new_child)]
        d == make_sibling(c, c[child].lsb, new_child)
    IN  make_sibling(d, new_child, d[child].rsb)

\* the run lp .. rp of p's children replaced by new_child; the index of lp
substituteParentheses(ns, p, lp, rp, new_child) ==
    LET a == make_sibling(ns, ns[lp].lsb, new_child)
        b == make_sibling(a, new_child, a[rp].rsb)
        c == [b EXCEPT ![new_child].parent = b[rp].parent]
        lp_index == IndexOf(c[p].children, lp)
        rp_index == IndexOf(c[p].children, rp)
    IN  [ns |-> [c EXCEPT ![p].children =
                     SubSeq(@, 1, lp_index - 1) \o <<new_child>>
                     \o SubSeq(@, rp_index + 1, Len(@))],
         i |-> lp_index - 1]

attach_to_tree(ns, n, p) ==
    LET l == getRightChild(ns, p)
        a == [ns EXCEPT ![n].parent = p, ![n].lsb = l]
        b == addChild(a, p, n)
    IN  IF l # None THEN [b EXCEPT ![l].rsb = n] ELSE b

detach_from_tree(ns, n, p) ==
    IF p = None THEN ns
    ELSE LET a == removeChild(ns, p, n)
             b == IF a[n].lsb # None THEN [a EXCEPT ![a[n].lsb].rsb = a[n].rsb]
                  ELSE a
             c == IF b[n].rsb # None THEN [b EXCEPT ![b[n].rsb].lsb = b[n].lsb]
                  ELSE b
         IN  [c EXCEPT ![n].rsb = None, ![n].lsb = None]

----------------------------------------------------------------------------
(* The grammar lookup (man_lookup) and the bash module's definitions.      *)

get_flag_arg_type(head_cmd, flag) ==
    IF head_cmd = w_find /\ flag = w_name THEN "Pattern"
    ELSE IF head_cmd = w_find /\ flag = w_exec THEN "Utility"
    ELSE IF head_cmd = w_ls /\ flag = w_w THEN "Number"
    ELSE ""

Slot(t, is_list) == [type |-> t, is_list |-> is_list, filled |-> FALSE]

get_arg_types(head_cmd) ==
    IF head_cmd = w_find
    THEN [nonoptional |-> <<Slot("File", TRUE)>>, optional |-> <<>>]
    ELSE IF head_cmd = w_ls
    THEN [nonoptional |-> <<>>, optional |-> <<Slot("File", TRUE)>>]
    ELSE IF head_cmd = w_xargs
    THEN [nonoptional |-> <<Slot("Utility", FALSE)>>, optional |-> <<>>]
    ELSE [nonoptional |-> <<>>, optional |-> <<>>]

is_double_option(w) == startswith(w, w_ddash) /\ Len(w) > 2

NUM == <<"_", "N", "U", "M">>
LONG_PATTERN == <<"_", "L", "O", "N", "G", "_", "P", "A", "T", "T", "E", "R", "N">>

RECURSIVE drop_digits(_)
drop_digits(w) ==
    IF w # <<>> /\ Head(w) \in Digits THEN drop_digits(Tail(w)) ELSE w

\* re.sub(_DIGIT_RE, _NUM, w): every run of digits becomes _NUM
RECURSIVE sub_digits(_)
sub_digits(w) ==
    IF w = <<>> THEN <<>>
    ELSE IF Head(w) \in Digits THEN NUM \o sub_digits(drop_digits(w))
    ELSE <<Head(w)>> \o sub_digits(Tail(w))

----------------------------------------------------------------------------
(* Classification of words.                                                *)

anydigit(w) == \E k \in 1..Len(w) : w[k] \in Digits

\* isNode: the argument is a parser node; a bare str has no attribute word.
\* span is pos[1] - pos[0].
type_check(isNode, word, span, possible_types) ==
    IF ~isNode THEN [exc |-> "AttributeError", type |-> ""]
    ELSE [exc |-> "", type |->
        IF word \in {w_plus, w_semi, w_braces} THEN "ReservedWord"
        ELSE IF isdigit(word) /\ "Number" \in possible_types THEN "Number"
        ELSE IF anydigit(word) /\ Last(word) \in {"k", "M", "G", "T", "P"}
                /\ "Size" \in possible_types THEN "Size"
        ELSE IF anydigit(word) /\ Last(word) \in {"s", "m", "h", "d", "w"}
                /\ "Time" \in possible_types THEN "Time"
        ELSE IF "Permission" \in possible_types
                /\ (anydigit(word) \/ contains(word, "=")) THEN "Permission"
        ELSE IF "Pattern" \in possible_types /\ Len(word) = span - 2 THEN "Pattern"
        ELSE IF "File" \in possible_types THEN "File"
        ELSE IF "Utility" \in possible_types THEN "Utility"
        ELSE "Unknown"]

is_unary_logic_op(ns, word, parent) ==
    IF word = w_bang
    THEN parent # None /\ ns[parent].kind = "headcommand"
         /\ ns[parent].value = w_find
    ELSE word \in right_associate_unary_logic_operators
         \/ word \in left_associate_unary_logic_operators

\* the word the node is left with (-o and -a are rewritten under find) and
\* the answer
is_binary_logic_op(ns, word, parent) ==
    LET under_find == parent # None /\ ns[parent].kind = "headcommand"
                      /\ ns[parent].value = w_find
    IN  IF word = w_o
        THEN [word |-> IF under_find THEN w_or ELSE word, is |-> under_find]
        ELSE IF word = w_a
        THEN [word |-> IF under_find THEN w_and ELSE word, is |-> under_find]
        ELSE [word |-> word, is |-> word \in binary_logic_operators]

with_quotation(node) ==
    node.src[1] \in Quotes \/ node.src[Len(node.src)] \in Quotes

recover_quotation(node) ==
    IF with_quotation(node) THEN node.src ELSE node.word

normalize_word(node, kind, norm_digit, norm_long_pattern, recover_quote, arg_type) ==
    LET w == IF recover_quote THEN recover_quotation(node) ELSE node.word
        w1 == IF contains(w, " ") /\ norm_long_pattern THEN LONG_PATTERN ELSE w
        w2 == IF norm_digit THEN sub_digits(w1) ELSE w1
    IN  IF kind = "argument" /\ arg_type # "Permission" THEN w2 ELSE w

\* Inside normalize_ast the name recover_quotation is bound to the nested
\* function of that name by the time a word is normalized, so the value
\* handed on as recover_quote is always true in a condition.
recover_quote_passed == TRUE

normalize_argument(ns, node, current, arg_type) ==
    LET value == normalize_word(node, "argument", opts.normalize_digits,
                                opts.normalize_long_pattern,
                                recover_quote_passed, arg_type)
    IN  attach_to_tree(Alloc(ns, ArgumentNode(value, arg_type)), NewId(ns), current)

normalize_flag(ns, node, current) ==
    LET value == normalize_word(node, "flag", opts.normalize_digits,
                                opts.normalize_long_pattern,
                                recover_quote_passed, "")
    IN  attach_to_tree(Alloc(ns, FlagNode(value)), NewId(ns), current)

normalize_headcommand(ns, node, current) ==
    LET value == normalize_word(node, "headcommand", opts.normalize_digits,
                                opts.normalize_long_pattern,
                                recover_quote_passed, "")
    IN  attach_to_tree(Alloc(ns, HeadCommandNode(value)), NewId(ns), current)

----------------------------------------------------------------------------
(* attach_flag.                                                            *)

\* the flags of a split token, one per character of options, in order
RECURSIVE split_flags(_, _, _, _)
split_flags(ns, node, options, attach_point) ==
    IF options = <<>> THEN ns
    ELSE split_flags(
            normalize_flag(ns, [node EXCEPT !.word = <<"-", Head(options)>>],
                           attach_point),
            node, Tail(options), attach_point)

\* the token is attached as one flag
attach_flag_unsplit(ns, node, attach_point) ==
    \/ is_double_option(node.word)
    \/ is_unary_logic_op(ns, node.word, attach_point)
    \/ node.word \in binary_logic_operators
    \/ ns[attach_point].value = w_find
    \/ Len(node.word) <= 1

\* the tree after the flag (or flags) of node are attached
attach_flag_nodes(ns, node, attach_point) ==
    IF attach_flag_unsplit(ns, node, attach_point)
    THEN normalize_flag(ns, node, attach_point)
    ELSE LET options == Tail1(node.word)
         IN  IF Len(options) = 1 THEN normalize_flag(ns, node, attach_point)
             ELSE split_flags(ns, node, options, attach_point)

\* info is the attach point as (ap, kinds, types, typesNone); the result
\* carries the tree, the new attach point and the exception raised, if any
attach_flag(ns, node, info) ==
    LET attach_point == info.ap
        failed == ~attach_flag_unsplit(ns, node, attach_point)
                  /\ ~startswith(node.word, <<"-">>)
        ns1 == attach_flag_nodes(ns, node, attach_point)
        head == getHeadCommand(ns1, attach_point)
        arg_type == get_flag_arg_type(ns1[head].value, node.word)
    IN  IF failed THEN [ns |-> ns, info |-> info, exc |-> "AssertionError"]
        ELSE IF head = None
        THEN [ns |-> ns1, info |-> info, exc |-> "AttributeError"]
        ELSE IF arg_type # ""
        THEN [ns |-> ns1,
              info |-> [ap |-> getRightChild(ns1, attach_point),
                        kinds |-> <<"argument">>, types |-> <<arg_type>>,
                        typesNone |-> FALSE],
              exc |-> ""]
        ELSE [ns |-> ns1, info |-> info, exc |-> ""]

look_above(ns, attach_point) ==
    [ap |-> getHeadCommand(ns, attach_point),
     kinds |-> <<"flags", "arguments">>, types |-> <<>>, typesNone |-> TRUE]

----------------------------------------------------------------------------
(* The positional-argument slots of a command (arg_status).                *)

open_types(slots) ==
    {slots[k].type : k \in {m \in 1..Len(slots) :
                              ~(~slots[m].is_list /\ slots[m].filled)}}

expecting(arg_status, a_t) ==
    \/ a_t \in open_types(arg_status.nonoptional)
    \/ a_t \in open_types(arg_status.optional)

\* arg_types, the types handed to type_check: both loops run over the
\* non-optional slots
allowed_types(arg_status) ==
    open_types(arg_status.nonoptional) \cup open_types(arg_status.nonoptional)

\* word is child.word, a str
cmd_arg_type_check(arg_status, word) ==
    LET arg_types == allowed_types(arg_status)
        checked == type_check(FALSE, word, 0, arg_types)
        fill(slots, t) ==
            [k \in 1..Len(slots) |->
                IF slots[k].type = t THEN [slots[k] EXCEPT !.filled = TRUE]
                ELSE slots[k]]
    IN  IF arg_types = {}
        THEN [exc |-> "AssertionError", type |-> "", arg_status |-> arg_status]
        ELSE IF checked.exc # ""
        THEN [exc |-> checked.exc, type |-> "", arg_status |-> arg_status]
        ELSE IF Len(arg_status.optional) > Len(arg_status.nonoptional)
        THEN [exc |-> "IndexError", type |-> "", arg_status |-> arg_status]
        ELSE [exc |-> "", type |-> checked.type,
              arg_status |->
                [arg_status EXCEPT !.nonoptional = fill(@, checked.type)]]

----------------------------------------------------------------------------
(* The call stack.  A frame is one activation of normalize or of           *)
(* normalize_command; indices (ind, i, j) count from 0 as in the source.   *)

BlankFrame ==
    [fn |-> "", pc |-> "", node |-> None, current |-> None, arg_type |-> "",
     list |-> <<>>, idx |-> 0, loopcur |-> None, only_commands |-> FALSE,
     parts |-> <<>>, ind |-> 0, ap |-> None, kinds |-> <<>>, types |-> <<>>,
     typesNone |-> FALSE, arg_status |-> [nonoptional |-> <<>>, optional |-> <<>>],
     head_commands |-> <<>>, unary_logic_ops |-> <<>>, binary_logic_ops |-> <<>>,
     unprocessed_unary_logic_ops |-> <<>>, unprocessed_binary_logic_ops |-> <<>>,
     head_command |-> None, stack |-> <<>>, depth |-> 0, i |-> 0,
     next_ul |-> 0, next_bl |-> 0, j |-> 0, delim |-> <<>>]

\* normalize(node, current, node_kind, arg_type) about to run
NormalizeFrame(node, current, arg_type) ==
    [BlankFrame EXCEPT !.fn = "normalize", !.pc = "enter", !.node = node,
                       !.current = current, !.arg_type = arg_type]

\* normalize_command(node, current) about to run, node.parts being parts
CommandFrame(parts, current) ==
    [BlankFrame EXCEPT !.fn = "normalize_command", !.pc = "scan",
                       !.parts = parts, !.current = current, !.ap = current,
                       !.kinds = <<"headcommand">>, !.types = <<>>,
                       !.typesNone = FALSE]

Top == calls[Len(calls)]
WithTop(f) == [calls EXCEPT ![Len(calls)] = f]
Push(cs, f) == Append(cs, f)
Pop == Front(calls)

\* normalize_ast catches ValueError, AttributeError and AssertionError and
\* returns None; sys.exit() and every other exception leave it
Ending(e) ==
    IF e \in {"ValueError", "AttributeError", "AssertionError"} THEN "none"
    ELSE IF e = "SystemExit" THEN "exit"
    ELSE "raised"

treeVars == <<tree0, pruned, pruned2, tokens, rebuilt, phase>>

Step(ns, cs) ==
    /\ nodes' = ns
    /\ calls' = cs
    /\ outcome' = IF cs = <<>> THEN "tree" ELSE "running"
    /\ err' = ""
    /\ UNCHANGED <<opts, rawRoot, treeVars>>

Raise(e) ==
    /\ nodes' = nodes
    /\ calls' = <<>>
    /\ outcome' = Ending(e)
    /\ err' = e
    /\ UNCHANGED <<opts, rawRoot, treeVars>>

StepOrRaise(exc, ns, cs) ==
    IF exc # "" THEN Raise(exc) ELSE Step(ns, cs)

Running == outcome = "running" /\ calls # <<>>

----------------------------------------------------------------------------
(* normalize_command: the scan of node.parts.                              *)

InScan ==
    /\ Running
    /\ Top.fn = "normalize_command"
    /\ Top.pc = "scan"
    /\ Top.ind < Len(Top.parts)

Child == raw[Top.parts[Top.ind + 1]]
Info(f) == [ap |-> f.ap, kinds |-> f.kinds, types |-> f.types,
            typesNone |-> f.typesNone]
WithInfo(f, info) ==
    [f EXCEPT !.ap = info.ap, !.kinds = info.kinds, !.types = info.types,
              !.typesNone = info.typesNone]
Advance(f) == [f EXCEPT !.ind = @ + 1]

IsUnaryWord == Child.kind = "word" /\ is_unary_logic_op(nodes, Child.word, Top.ap)
IsBinaryWord ==
    Child.kind = "word" /\ ~IsUnaryWord /\ Child.word \in binary_logic_operators
IsPlainWord == Child.kind = "word" /\ ~IsUnaryWord /\ ~IsBinaryWord

ScanUnaryOp ==
    /\ InScan
    /\ IsUnaryWord
    /\ LET n == NewId(nodes)
           ns == attach_to_tree(Alloc(nodes, UnaryLogicOpNode(Child.word)), n, Top.ap)
       IN  Step(ns, WithTop(Advance([Top EXCEPT !.unary_logic_ops = Append(@, n)])))
    /\ UNCHANGED raw

ScanBinaryOp ==
    /\ InScan
    /\ IsBinaryWord
    /\ LET b == is_binary_logic_op(nodes, Child.word, Top.ap)
           n == NewId(nodes)
           ns == attach_to_tree(Alloc(nodes, BinaryLogicOpNode(b.word)), n, Top.ap)
       IN  /\ b.is
           /\ raw' = [raw EXCEPT ![Top.parts[Top.ind + 1]].word = b.word]
           /\ Step(ns, WithTop(Advance([Top EXCEPT !.binary_logic_ops = Append(@, n)])))

\* -o and -a away from find are flags
ScanOperatorFlag ==
    /\ InScan
    /\ IsBinaryWord
    /\ ~is_binary_logic_op(nodes, Child.word, Top.ap).is
    /\ LET r == attach_flag(nodes, Child, Info(Top))
       IN  StepOrRaise(r.exc, r.ns, WithTop(Advance(WithInfo(Top, r.info))))
    /\ UNCHANGED raw

ScanDoubleDash ==
    /\ InScan
    /\ IsPlainWord
    /\ Child.word = w_ddash
    /\ Step(nodes, WithTop(Advance([Top EXCEPT !.kinds = <<"argument">>])))
    /\ UNCHANGED raw

Unambiguous == IsPlainWord /\ Child.word # w_ddash /\ Len(Top.kinds) = 1
Ambiguous == IsPlainWord /\ Child.word # w_ddash /\ Len(Top.kinds) # 1

ScanHeadCommand ==
    /\ InScan
    /\ Unambiguous
    /\ Top.kinds[1] = "headcommand"
    /\ LET n == NewId(nodes)
           ns == normalize_headcommand(nodes, Child, Top.ap)
           f == [Top EXCEPT !.head_commands = Append(@, n),
                            !.arg_status = get_arg_types(ns[n].value),
                            !.ap = n, !.kinds = <<"flag", "argument">>,
                            !.types = <<>>, !.typesNone = TRUE]
       IN  Step(ns, WithTop(Advance(f)))
    /\ UNCHANGED raw

EmbeddedCommand ==
    /\ ~Top.typesNone
    /\ Top.types # <<>>
    /\ InSeq(Top.types, "Utility")

\* hasattr(node, 'word'): words and assignments carry one
HasWord(r) == r.kind \in {"word", "assignment"}
IsDelimiter(r) == HasWord(r) /\ r.word \in {w_semi, w_plus}

\* the argument of a flag: normalize(child, attach_point, "argument", arg_type)
ScanFlagArgument ==
    /\ InScan
    /\ Unambiguous
    /\ Top.kinds[1] = "argument"
    /\ ~EmbeddedCommand
    /\ IF Top.typesNone THEN Raise("TypeError")
       ELSE IF Top.types = <<>> THEN Raise("IndexError")
       ELSE Step(nodes,
                 Push(WithTop([Top EXCEPT !.pc = "argument_return"]),
                      NormalizeFrame(Top.parts[Top.ind + 1], Top.ap, Top.types[1])))
    /\ UNCHANGED raw

ArgumentReturn ==
    /\ Running
    /\ Top.fn = "normalize_command"
    /\ Top.pc = "argument_return"
    /\ Step(nodes,
            WithTop(Advance([WithInfo(Top, look_above(nodes, Top.ap))
                                EXCEPT !.pc = "scan"])))
    /\ UNCHANGED raw

\* the embedded command of -exec and its like: the parts up to ; or +
ScanEmbedded ==
    /\ InScan
    /\ Unambiguous
    /\ Top.kinds[1] = "argument"
    /\ EmbeddedCommand
    /\ LET ends == {j \in Top.ind..(Len(Top.parts) - 1) :
                       IsDelimiter(raw[Top.parts[j + 1]])}
           found == ends # {}
           j == IF found THEN CHOOSE m \in ends : \A k \in ends : m <= k
                ELSE Len(Top.parts) - 1
           new_parts == IF found THEN SubSeq(Top.parts, Top.ind + 1, j)
                        ELSE SubSeq(Top.parts, Top.ind + 1, Len(Top.parts))
           delim == IF found THEN raw[Top.parts[j + 1]].word ELSE w_semi
       IN  Step(nodes,
                Push(WithTop([Top EXCEPT !.pc = "embedded_return", !.j = j,
                                         !.delim = delim]),
                     CommandFrame(new_parts, Top.ap)))
    /\ UNCHANGED raw

EmbeddedReturn ==
    /\ Running
    /\ Top.fn = "normalize_command"
    /\ Top.pc = "embedded_return"
    /\ LET ns == [nodes EXCEPT ![Top.ap].value = @ \o <<":", ":">> \o Top.delim]
           f == [Top EXCEPT !.ind = Top.j, !.pc = "scan"]
       IN  Step(ns, WithTop(Advance(WithInfo(f, look_above(ns, Top.ap)))))
    /\ UNCHANGED raw

IsFlagWord ==
    /\ startswith(Child.word, <<"-">>)
    /\ ~(nodes[Top.ap].value \in {w_head, w_tail} /\ isdigit(Tail1(Child.word)))

ScanFlag ==
    /\ InScan
    /\ Ambiguous
    /\ IsFlagWord
    /\ LET r == attach_flag(nodes, Child, Info(Top))
       IN  StepOrRaise(r.exc, r.ns, WithTop(Advance(WithInfo(Top, r.info))))
    /\ UNCHANGED raw

\* the command run by sh, xargs and their like: all the parts that are left
ScanUtility ==
    /\ InScan
    /\ Ambiguous
    /\ ~IsFlagWord
    /\ expecting(Top.arg_status, "Utility")
    /\ Step(nodes,
            Push(WithTop([Top EXCEPT !.pc = "utility_return",
                                     !.j = Len(Top.parts) - 1]),
                 CommandFrame(SubSeq(Top.parts, Top.ind + 1, Len(Top.parts)),
                              Top.ap)))
    /\ UNCHANGED raw

UtilityReturn ==
    /\ Running
    /\ Top.fn = "normalize_command"
    /\ Top.pc = "utility_return"
    /\ LET f == [Top EXCEPT !.ind = Top.j, !.pc = "scan"]
       IN  Step(nodes, WithTop(Advance(WithInfo(f, look_above(nodes, Top.ap)))))
    /\ UNCHANGED raw

\* a positional argument: cmd_arg_type_check(child.word), then
\* normalize(child, attach_point, "argument", arg_type)
ScanPositional ==
    /\ InScan
    /\ Ambiguous
    /\ ~IsFlagWord
    /\ ~expecting(Top.arg_status, "Utility")
    /\ LET r == cmd_arg_type_check(Top.arg_status, Child.word)
       IN  StepOrRaise(r.exc, nodes,
                Push(WithTop([Top EXCEPT !.pc = "argument_return",
                                         !.arg_status = r.arg_status]),
                     NormalizeFrame(Top.parts[Top.ind + 1], Top.ap, r.type)))
    /\ UNCHANGED raw

\* assignment and redirect parts go to normalize; any other part is passed by
ScanOtherPart ==
    /\ InScan
    /\ Child.kind # "word"
    /\ IF Child.kind \in {"assignment", "redirect"}
       THEN Step(nodes, Push(WithTop(Advance(Top)),
                             NormalizeFrame(Top.parts[Top.ind + 1], Top.ap, "")))
       ELSE Step(nodes, WithTop(Advance(Top)))
    /\ UNCHANGED raw

----------------------------------------------------------------------------
(* normalize_command: the logic-operator resolver.  The resolver's state   *)
(* is st = [ns, uu, ub, exc]: the tree, the two lists of operators left    *)
(* for later (unprocessed_unary_logic_ops, unprocessed_binary_logic_ops)   *)
(* and the exception raised, "" when none.                                 *)

ResolverState(ns, uu, ub) == [ns |-> ns, uu |-> uu, ub |-> ub, exc |-> ""]
Raised(st, e) == [st EXCEPT !.exc = e]

\* a -and node left with one child by the parentheses is replaced by it
resolve_single_child(st, node) ==
    LET ns == st.ns
        parent == ns[node].parent
    IN  IF parent = None THEN Raised(st, "AttributeError")
        ELSE IF ns[parent].kind = "binarylogicop" /\ ns[parent].value = w_and
                /\ getNumChildren(ns, parent) = 1
        THEN IF ns[parent].parent = None THEN Raised(st, "AttributeError")
             ELSE IF ~hasChild(ns, ns[parent].parent, parent)
             THEN Raised(st, "ValueError")
             ELSE [st EXCEPT !.ns = replaceChild(ns, grandparent(ns, node),
                                                 parent, node)]
        ELSE st

\* node takes sibling sb as its child; l and r are node's siblings afterwards
adopt(ns, node, sb, l, r) ==
    LET a == make_sibling(ns, l, r)
        b == removeChild(a, a[node].parent, sb)
        c == [b EXCEPT ![sb].lsb = None, ![sb].rsb = None]
    IN  addChild(c, node, sb)

adjust_unary_operators(st, node) ==
    LET ns == st.ns
        rsb == ns[node].rsb
        lsb == ns[node].lsb
    IN  IF ns[node].associate = RIGHT
        THEN IF rsb = None THEN st
             ELSE IF ns[rsb].value = w_lparen
             THEN [st EXCEPT !.uu = Append(@, node)]
             ELSE IF ns[rsb].value = w_rparen
             THEN [st EXCEPT !.ns[node].associate = LEFT, !.uu = Append(@, node)]
             ELSE IF ns[node].parent = None THEN Raised(st, "AttributeError")
             ELSE IF ~hasChild(ns, ns[node].parent, rsb) THEN Raised(st, "ValueError")
             ELSE resolve_single_child(
                    [st EXCEPT !.ns = adopt(ns, node, rsb, node, ns[rsb].rsb)],
                    node)
        ELSE IF ns[node].associate = LEFT
        THEN IF lsb = None THEN st
             ELSE IF ns[lsb].value = w_rparen
             THEN [st EXCEPT !.uu = Append(@, node)]
             ELSE IF ns[lsb].kind = "binarylogicop" \/ ns[lsb].value = w_lparen
             THEN st
             ELSE IF ns[node].parent = None THEN Raised(st, "AttributeError")
             ELSE IF ~hasChild(ns, ns[node].parent, lsb) THEN Raised(st, "ValueError")
             ELSE resolve_single_child(
                    [st EXCEPT !.ns = adopt(ns, node, lsb, ns[lsb].lsb, node)],
                    node)
        ELSE Raised(st, "AttributeError")

\* only the last child of lsb becomes a child of node
adopt_last_child(ns, node, cs) ==
    IF cs = <<>> THEN ns ELSE make_parentchild(ns, node, Last(cs))

\* every child of lsb becomes a child of node, in order
RECURSIVE adopt_children(_, _, _)
adopt_children(ns, node, cs) ==
    IF cs = <<>> THEN ns
    ELSE adopt_children(make_parentchild(ns, node, Head(cs)), node, Tail(cs))

adjust_binary_operators(st, node) ==
    LET ns == st.ns
        rsb == ns[node].rsb
        lsb == ns[node].lsb
        parent == ns[node].parent
    IN  IF rsb = None \/ lsb = None THEN Raised(st, "AttributeError")
        ELSE IF ns[rsb].value = w_lparen \/ ns[lsb].value = w_rparen
        THEN [st EXCEPT !.ub = Append(@, node)]
        ELSE IF ns[rsb].value = w_rparen \/ ns[lsb].value = w_lparen
        THEN Raised(st, "AssertionError")
        ELSE IF parent = None THEN Raised(st, "AttributeError")
        ELSE IF ~hasChild(ns, parent, rsb) \/ ~hasChild(ns, parent, lsb)
        THEN Raised(st, "ValueError")
        ELSE LET a == make_sibling(ns, node, ns[rsb].rsb)
                 b == make_sibling(a, a[lsb].lsb, node)
                 c == removeChild(removeChild(b, parent, rsb), parent, lsb)
                 d == [c EXCEPT ![rsb].rsb = None, ![lsb].lsb = None]
                 merged ==
                    LET e == adopt_children(d, node, d[lsb].children)
                        f == make_parentchild(e, node, rsb)
                    IN  make_sibling(f, getRightChild(f, lsb), rsb)
                 nested ==
                    LET e == make_parentchild(d, node, lsb)
                        f == make_parentchild(e, node, rsb)
                    IN  make_sibling(f, lsb, rsb)
             IN  resolve_single_child(
                    [st EXCEPT !.ns =
                        IF d[lsb].kind = "binarylogicop"
                           /\ d[lsb].value = d[node].value
                        THEN merged ELSE nested],
                    node)

\* organize_buffer's first two loops: from node along rsb up to rparenth
RECURSIVE adjust_run(_, _, _, _)
RECURSIVE adjust_next(_, _, _, _)
adjust_run(st, node, rparenth, kind) ==
    IF st.exc # "" \/ node = rparenth THEN st
    ELSE IF node = None THEN Raised(st, "AttributeError")
    ELSE IF st.ns[node].kind # kind
    THEN adjust_next(st, node, rparenth, kind)
    ELSE IF kind = "unarylogicop"
    THEN adjust_next(adjust_unary_operators(st, node), node, rparenth, kind)
    ELSE adjust_next(adjust_binary_operators(st, node), node, rparenth, kind)

\* node = node.rsb, in the tree the adjustment left
adjust_next(st1, node, rparenth, kind) ==
    IF st1.exc # "" THEN st1
    ELSE adjust_run(st1, st1.ns[node].rsb, rparenth, kind)

\* organize_buffer's last loop: the run is attached to the new -and node
RECURSIVE wrap_run(_, _, _, _)
wrap_run(st, node, rparenth, norm_node) ==
    IF st.exc # "" \/ node = rparenth THEN st
    ELSE IF node = None THEN Raised(st, "AttributeError")
    ELSE LET ns1 == attach_to_tree(st.ns, node, norm_node)
         IN  wrap_run([st EXCEPT !.ns = ns1], ns1[node].rsb, rparenth, norm_node)

\* organize_buffer once both kinds of operators are adjusted: the state
\* after, and new_child
organize_children(st2, lparenth, rparenth) ==
    LET node == st2.ns[lparenth].rsb
        norm_node == NewId(st2.ns)
    IN  IF st2.exc # "" THEN [st |-> st2, new_child |-> None]
        ELSE IF node = None
        THEN [st |-> Raised(st2, "AttributeError"), new_child |-> None]
        ELSE IF st2.ns[node].rsb = rparenth
        THEN [st |-> st2, new_child |-> node]
        ELSE [st |-> wrap_run([st2 EXCEPT !.ns = Alloc(@, BinaryLogicOpNode(w_and))],
                              node, rparenth, norm_node),
              new_child |-> norm_node]

\* organize_buffer's second loop, over the binary operators
organize_binary(st1, lparenth, rparenth) ==
    organize_children(
        IF st1.exc # "" THEN st1
        ELSE adjust_run(st1, st1.ns[lparenth].rsb, rparenth, "binarylogicop"),
        lparenth, rparenth)

organize_buffer(st, lparenth, rparenth) ==
    organize_binary(
        adjust_run(st, st.ns[lparenth].rsb, rparenth, "unarylogicop"),
        lparenth, rparenth)

\* what is popped down to the "(": [ns, stack, exc, lparenth]
RECURSIVE pop_to_lparenth(_, _, _)
pop_to_lparenth(ns, stack, head_command) ==
    IF stack = <<>>
    THEN [ns |-> ns, stack |-> stack, exc |-> "IndexError", lparenth |-> None]
    ELSE LET popped == Last(stack)
         IN  IF ns[popped].value = w_lparen
             THEN [ns |-> ns, stack |-> Front(stack), exc |-> "",
                   lparenth |-> popped]
             ELSE IF ~hasChild(ns, head_command, popped)
             THEN [ns |-> ns, stack |-> stack, exc |-> "ValueError",
                   lparenth |-> None]
             ELSE pop_to_lparenth(removeChild(ns, head_command, popped),
                                  Front(stack), head_command)

\* pop_stack_content, last part: the parentheses are replaced by
\* new_child, which goes back on the stack when a "(" is still open
pop_substitute(rs, p, o, sub) ==
    [st |-> [o.st EXCEPT !.ns = sub.ns],
     stack |-> IF rs.depth - 1 > 0 THEN Append(p.stack, o.new_child)
               ELSE p.stack,
     depth |-> rs.depth - 1,
     i |-> sub.i]

\* pop_stack_content, after organize_buffer returned o
pop_organized(rs, head_command, rp, p, o) ==
    IF o.st.exc # "" THEN [rs EXCEPT !.st = o.st]
    ELSE IF ~hasChild(o.st.ns, head_command, p.lparenth)
            \/ ~hasChild(o.st.ns, head_command, rp)
    THEN [rs EXCEPT !.st = Raised(o.st, "ValueError")]
    ELSE pop_substitute(rs, p, o,
            substituteParentheses(o.st.ns, head_command, p.lparenth, rp,
                                  o.new_child))

\* pop_stack_content, after the stack is popped down to the "(": p
pop_popped(rs, head_command, rparenth, stack_top, p) ==
    LET synth == NewId(p.ns)
        top_parent == p.ns[stack_top].parent
        ns1 == IF rparenth # None THEN p.ns
               ELSE make_sibling(
                        make_parentchild(Alloc(p.ns, ArgumentNode(w_rparen, "")),
                                         top_parent, synth),
                        stack_top, synth)
        rp == IF rparenth # None THEN rparenth ELSE synth
    IN  IF p.exc # "" THEN [rs EXCEPT !.st = Raised(rs.st, p.exc)]
        ELSE IF rparenth = None /\ top_parent = None
        THEN [rs EXCEPT !.st = Raised(rs.st, "AttributeError")]
        ELSE pop_organized(rs, head_command, rp, p,
                organize_buffer([rs.st EXCEPT !.ns = ns1], p.lparenth, rp))

\* rs = [st, stack, depth, i]; rparenth = None: the ")" is missing
pop_stack_content(rs, head_command, rparenth, stack_top) ==
    pop_popped(rs, head_command, rparenth, stack_top,
               pop_to_lparenth(rs.st.ns, rs.stack, head_command))

\* the loop that closes the "(" still open when the scan ends
RECURSIVE close_parentheses(_, _)
close_parentheses(rs, head_command) ==
    IF rs.st.exc # "" \/ rs.depth <= 0 THEN rs
    ELSE IF rs.stack = <<>> THEN [rs EXCEPT !.st = Raised(rs.st, "IndexError")]
    ELSE close_parentheses(
            pop_stack_content(rs, head_command, None, Last(rs.stack)),
            head_command)

InCommand(pc) == Running /\ Top.fn = "normalize_command" /\ Top.pc = pc

\* the scan is over: the head command is looked up
ScanEnd ==
    /\ InCommand("scan")
    /\ Top.ind >= Len(Top.parts)
    /\ IF Len(Top.head_commands) = 0 THEN Step(nodes, Pop)
       ELSE IF Len(Top.head_commands) > 1 THEN Raise("SystemExit")
       ELSE Step(nodes,
                 WithTop([Top EXCEPT !.pc = "parentheses",
                                     !.head_command = Top.head_commands[1],
                                     !.stack = <<>>, !.depth = 0, !.i = 0]))
    /\ UNCHANGED raw

ResolverOf(f) ==
    [st |-> ResolverState(nodes, f.unprocessed_unary_logic_ops,
                          f.unprocessed_binary_logic_ops),
     stack |-> f.stack, depth |-> f.depth, i |-> f.i]

WithResolver(f, rs) ==
    [f EXCEPT !.unprocessed_unary_logic_ops = rs.st.uu,
              !.unprocessed_binary_logic_ops = rs.st.ub,
              !.stack = rs.stack, !.depth = rs.depth, !.i = rs.i]

\* one turn of the loop over head_command.children
parentheses_step(rs, head_command) ==
    LET ns == rs.st.ns
        child == ns[head_command].children[rs.i + 1]
        after ==
            IF ns[child].value = w_lparen
            THEN [rs EXCEPT !.stack = Append(@, child), !.depth = @ + 1]
            ELSE IF ns[child].value = w_rparen
            THEN IF rs.depth < 0 THEN [rs EXCEPT !.st = Raised(@, "AssertionError")]
                 ELSE IF rs.depth = 0
                 THEN [rs EXCEPT !.st.ns =
                          detach_from_tree(ns, child, ns[child].parent)]
                 ELSE pop_stack_content(rs, head_command, child, None)
            ELSE IF rs.depth > 0 THEN [rs EXCEPT !.stack = Append(@, child)]
            ELSE IF ns[child].kind = "unarylogicop"
            THEN [rs EXCEPT !.st.uu = Append(@, child)]
            ELSE IF ns[child].kind = "binarylogicop"
            THEN [rs EXCEPT !.st.ub = Append(@, child)]
            ELSE rs
    IN  [after EXCEPT !.i = @ + 1]

\* the resolver's state is stored back into the frame
Resolved(rs) ==
    StepOrRaise(rs.st.exc, rs.st.ns, WithTop(WithResolver(Top, rs)))

ParenthesesStep ==
    /\ InCommand("parentheses")
    /\ Top.i < getNumChildren(nodes, Top.head_command)
    /\ Resolved(parentheses_step(ResolverOf(Top), Top.head_command))
    /\ UNCHANGED raw

\* assert len(stack) == 0 and depth == 0, then the deferred operators
Closed(rs) ==
    LET exc == IF rs.st.exc # "" THEN rs.st.exc
               ELSE IF Len(rs.stack) # 0 \/ rs.depth # 0 THEN "AssertionError"
               ELSE ""
    IN  StepOrRaise(exc, rs.st.ns,
            WithTop([WithResolver(Top, rs) EXCEPT !.pc = "operators",
                                                  !.next_ul = 0,
                                                  !.next_bl = 0]))

\* the loop is over: the open "(" are closed, then the operators left for
\* later are taken one by one
ParenthesesEnd ==
    /\ InCommand("parentheses")
    /\ Top.i >= getNumChildren(nodes, Top.head_command)
    /\ Closed(close_parentheses(ResolverOf(Top), Top.head_command))
    /\ UNCHANGED raw

\* for ul in unprocessed_unary_logic_ops: adjust_unary_operators(ul)
DeferredUnary ==
    /\ InCommand("operators")
    /\ Top.next_ul < Len(Top.unprocessed_unary_logic_ops)
    /\ LET st == adjust_unary_operators(
                    ResolverOf(Top).st,
                    Top.unprocessed_unary_logic_ops[Top.next_ul + 1])
           f == [Top EXCEPT !.unprocessed_unary_logic_ops = st.uu,
                            !.unprocessed_binary_logic_ops = st.ub,
                            !.next_ul = @ + 1]
       IN  StepOrRaise(st.exc, st.ns, WithTop(f))
    /\ UNCHANGED raw

\* for bl in unprocessed_binary_logic_ops: adjust_binary_operators(bl)
DeferredBinary ==
    /\ InCommand("operators")
    /\ Top.next_ul >= Len(Top.unprocessed_unary_logic_ops)
    /\ Top.next_bl < Len(Top.unprocessed_binary_logic_ops)
    /\ LET st == adjust_binary_operators(
                    ResolverOf(Top).st,
                    Top.unprocessed_binary_logic_ops[Top.next_bl + 1])
           f == [Top EXCEPT !.unprocessed_unary_logic_ops = st.uu,
                            !.unprocessed_binary_logic_ops = st.ub,
                            !.next_bl = @ + 1]
       IN  StepOrRaise(st.exc, st.ns, WithTop(f))
    /\ UNCHANGED raw

\* find with children but no argument gets "." as its first child
recover_omitted_arguments(ns, head_command) ==
    LET children == ns[head_command].children
        arguments == {k \in 1..Len(children) : ns[children[k]].kind = "argument"}
        norm_node == NewId(ns)
        a == Alloc(ns, ArgumentNode(w_dot, "File"))
        b == make_sibling(a, norm_node, children[1])
        c == [b EXCEPT ![norm_node].parent = head_command]
    IN  IF ns[head_command].value = w_find /\ Len(children) > 0
           /\ Cardinality(arguments) < 1
        THEN [c EXCEPT ![head_command].children = <<norm_node>> \o @]
        ELSE ns

\* the end of normalize_command
CommandReturn ==
    /\ InCommand("operators")
    /\ Top.next_ul >= Len(Top.unprocessed_unary_logic_ops)
    /\ Top.next_bl >= Len(Top.unprocessed_binary_logic_ops)
    /\ Step(recover_omitted_arguments(nodes, Top.head_command), Pop)
    /\ UNCHANGED raw

----------------------------------------------------------------------------
(* normalize: the dispatch on the kind of a parser node.                   *)

InNormalize(pc) == Running /\ Top.fn = "normalize" /\ Top.pc = pc
Entered == raw[Top.node]

\* for child in list: normalize(child, loopcur), from the frame of the caller
LoopFrame(f, list, loopcur, only_commands) ==
    [f EXCEPT !.pc = "loop", !.list = list, !.idx = 0, !.loopcur = loopcur,
              !.only_commands = only_commands]

Unsupported ==
    {"redirect", "operator", "parameter", "for", "if", "while", "until",
     "assignment", "function", "tilde", "heredoc"}

NormalizeWord ==
    /\ InNormalize("enter")
    /\ Entered.kind = "word"
    /\ LET first == raw[Entered.parts[1]].kind
           norm_node == NewId(nodes)
           wrapped(rec) == attach_to_tree(Alloc(nodes, rec), norm_node, Top.current)
       IN  IF Entered.parts = <<>>
           THEN Step(normalize_argument(nodes, Entered, Top.current, Top.arg_type), Pop)
           ELSE IF first = "processsubstitution"
           THEN IF contains(Entered.word, ">")
                THEN Step(wrapped(ProcessSubstitutionNode(<<">">>)),
                          WithTop(LoopFrame(Top, Entered.parts, norm_node, FALSE)))
                ELSE IF contains(Entered.word, "<")
                THEN Step(wrapped(ProcessSubstitutionNode(<<"<">>)),
                          WithTop(LoopFrame(Top, Entered.parts, norm_node, FALSE)))
                ELSE Step(nodes, Pop)
           ELSE IF first = "commandsubstitution"
           THEN Step(wrapped(CommandSubstitutionNode),
                     WithTop(LoopFrame(Top, Entered.parts, norm_node, FALSE)))
           ELSE IF first \in {"parameter", "tilde"}
           THEN Step(normalize_argument(nodes, Entered, Top.current, Top.arg_type), Pop)
           ELSE Step(nodes, WithTop(LoopFrame(Top, Entered.parts, Top.current, FALSE)))
    /\ UNCHANGED raw

NormalizePipeline ==
    /\ InNormalize("enter")
    /\ Entered.kind = "pipeline"
    /\ LET norm_node == NewId(nodes)
           ns == attach_to_tree(Alloc(nodes, PipelineNode), norm_node, Top.current)
       IN  IF Len(Entered.parts) % 2 = 0 THEN Raise("SystemExit")
           ELSE Step(ns, WithTop(LoopFrame(Top, Entered.parts, norm_node, TRUE)))
    /\ UNCHANGED raw

NormalizeList ==
    /\ InNormalize("enter")
    /\ Entered.kind = "list"
    /\ IF Len(Entered.parts) > 2 THEN Raise("ValueError")
       ELSE IF Entered.parts = <<>> THEN Raise("IndexError")
       ELSE Step(nodes, WithTop(NormalizeFrame(Entered.parts[1], Top.current, "")))
    /\ UNCHANGED raw

NormalizeSubstitution ==
    /\ InNormalize("enter")
    /\ Entered.kind \in {"commandsubstitution", "processsubstitution"}
    /\ Step(nodes, WithTop(NormalizeFrame(Entered.command, Top.current, "")))
    /\ UNCHANGED raw

NormalizeCommand ==
    /\ InNormalize("enter")
    /\ Entered.kind = "command"
    /\ Step(nodes, WithTop(CommandFrame(Entered.parts, Top.current)))
    /\ UNCHANGED raw

Dispatched == {"word", "pipeline", "list", "commandsubstitution",
               "processsubstitution", "command"}

\* any other node that has a parts attribute: its parts are normalized
NormalizeParts ==
    /\ InNormalize("enter")
    /\ Entered.kind \notin Dispatched
    /\ Entered.hasParts
    /\ Step(nodes, WithTop(LoopFrame(Top, Entered.parts, Top.current, FALSE)))
    /\ UNCHANGED raw

NormalizeUnsupported ==
    /\ InNormalize("enter")
    /\ Entered.kind \notin Dispatched
    /\ ~Entered.hasParts
    /\ Entered.kind \in Unsupported
    /\ Raise("ValueError")
    /\ UNCHANGED raw

\* no branch of normalize takes the node
NormalizeIgnored ==
    /\ InNormalize("enter")
    /\ Entered.kind \notin Dispatched
    /\ ~Entered.hasParts
    /\ Entered.kind \notin Unsupported
    /\ Step(nodes, Pop)
    /\ UNCHANGED raw

NormalizeLoop ==
    /\ InNormalize("loop")
    /\ LET child == Top.list[Top.idx + 1]
           next == [Top EXCEPT !.idx = @ + 1]
       IN  IF Top.idx >= Len(Top.list) THEN Step(nodes, Pop)
           ELSE IF ~Top.only_commands \/ raw[child].kind = "command"
           THEN Step(nodes, Push(WithTop(next), NormalizeFrame(child, Top.loopcur, "")))
           ELSE IF raw[child].kind = "pipe" THEN Step(nodes, WithTop(next))
           ELSE Raise("ValueError")
    /\ UNCHANGED raw

----------------------------------------------------------------------------
(* prune_ast.                                                              *)

\* the children prune_ast_fun takes out of a node
prunable(ns, child) ==
    ns[child].kind = "argument" /\ ns[child].arg_type # "ReservedWord"

\* child.lsb.rsb = child.rsb; child.rsb.lsb = child.lsb
prune_relink(ns, child) ==
    LET l == ns[child].lsb
        r == ns[child].rsb
        a == IF l # None THEN [ns EXCEPT ![l].rsb = r] ELSE ns
    IN  IF r # None THEN [a EXCEPT ![r].lsb = l] ELSE a

RECURSIVE remove_children(_, _, _)
remove_children(ns, node, to_remove) ==
    IF to_remove = <<>> THEN ns
    ELSE remove_children(removeChild(ns, node, Head(to_remove)), node,
                         Tail(to_remove))

RECURSIVE prune_ast_fun(_, _)
RECURSIVE prune_children(_, _, _, _)
\* the loop as it would run were each child removed inside it: the child
\* after a removed one is passed over
RECURSIVE prune_children_in_loop(_, _, _, _)
prune_children_in_loop(ns, node, cs, to_remove) ==
    IF cs = <<>> THEN ns
    ELSE IF prunable(ns, Head(cs))
    THEN prune_children_in_loop(
            removeChild(prune_relink(ns, Head(cs)), node, Head(cs)), node,
            IF Len(cs) > 1 THEN Tail(Tail(cs)) ELSE <<>>, to_remove)
    ELSE prune_children_in_loop(prune_ast_fun(ns, Head(cs)), node, Tail(cs),
                                to_remove)

\* the loop over node.children, at cs, then the removals
prune_children(ns, node, cs, to_remove) ==
    IF cs = <<>> THEN remove_children(ns, node, to_remove)
    ELSE IF prunable(ns, Head(cs))
    THEN prune_children(prune_relink(ns, Head(cs)), node, Tail(cs),
                        Append(to_remove, Head(cs)))
    ELSE prune_children(prune_ast_fun(ns, Head(cs)), node, Tail(cs), to_remove)

prune_ast_fun(ns, node) == prune_children(ns, node, ns[node].children, <<>>)

\* a pointer of the copy: the copy of node p is node p + by
rebased(p, by) == IF p = None THEN None ELSE p + by

rebased_node(rec, by) ==
    [rec EXCEPT !.parent = rebased(@, by), !.lsb = rebased(@, by),
                !.rsb = rebased(@, by),
                !.children = [k \in 1..Len(@) |-> rebased(@[k], by)]]

\* copy.deepcopy(node): the heap holds the tree and, after it, the copy,
\* every pointer of the copy leading to a copy
deepcopy(ns) == ns \o [k \in 1..Len(ns) |-> rebased_node(ns[k], Len(ns))]

\* the heap after the call, split: the caller's tree and the tree returned
\* (its nodes numbered like the nodes they copy)
pruned_heap(heap, n) ==
    [input |-> SubSeq(heap, 1, n),
     result |-> [k \in 1..n |-> rebased_node(heap[n + k], 0 - n)]]

\* node = copy.deepcopy(node); prune_ast_fun(node); return node
prune_ast(ns) ==
    pruned_heap(prune_ast_fun(deepcopy(ns), 1 + Len(ns)), Len(ns))

----------------------------------------------------------------------------
(* to_tokens: a token is a word; the result is [exc, toks].                *)

t_pipe == <<"|">>
t_subst == <<"$", "(">>
t_close == <<")">>
t_lparen == <<"\\", "(">>
t_rparen == <<"\\", ")">>
t_semi == <<"\\", ";">>

Tokens(toks) == [exc |-> "", toks |-> toks]
TokenError(e) == [exc |-> e, toks |-> <<>>]

\* tokens += ...: an exception on either side goes up
Joined(a, sep, b) ==
    IF a.exc # "" THEN a
    ELSE IF b.exc # "" THEN b
    ELSE Tokens(a.toks \o sep \o b.toks)

\* str.split('::')
RECURSIVE split_colons(_, _)
split_colons(w, acc) ==
    IF w = <<>> THEN <<acc>>
    ELSE IF Len(w) >= 2 /\ w[1] = ":" /\ w[2] = ":"
    THEN <<acc>> \o split_colons(SubSeq(w, 3, Len(w)), <<>>)
    ELSE split_colons(Tail(w), Append(acc, Head(w)))

RECURSIVE to_tokens_fun(_, _, _)
RECURSIVE to_tokens_children(_, _, _, _)
\* the tokens of the nodes cs, with the tokens sep between two of them
to_tokens_children(ns, cs, lc, sep) ==
    IF cs = <<>> THEN Tokens(<<>>)
    ELSE Joined(to_tokens_fun(ns, Head(cs), lc),
                IF Len(cs) > 1 THEN sep ELSE <<>>,
                to_tokens_children(ns, Tail(cs), lc, sep))

\* value, op = node.value.split('::') around the tokens of the children
flag_tokens(value_parts, children) ==
    IF Len(value_parts) = 1
    THEN Joined(Tokens(<<value_parts[1]>>), <<>>, children)
    ELSE IF Len(value_parts) # 2 THEN TokenError("ValueError")
    ELSE Joined(Joined(Tokens(<<value_parts[1]>>), <<>>, children), <<>>,
                Tokens(<<IF value_parts[2] = w_semi THEN t_semi
                         ELSE value_parts[2]>>))

to_tokens_fun(ns, node, lc) ==
    LET kind == ns[node].kind
        children == ns[node].children
        n == Len(children)
        value == ns[node].value
    IN  IF kind = "root"
        THEN IF ~(lc \/ n = 1) THEN Tokens(<<>>)
             ELSE IF lc THEN to_tokens_children(ns, children, lc, <<>>)
             ELSE to_tokens_fun(ns, children[1], lc)
        ELSE IF kind = "pipeline"
        THEN IF ~(lc \/ n > 1) THEN TokenError("AssertionError")
             ELSE IF lc /\ n < 1 THEN Tokens(<<t_pipe>>)
             ELSE to_tokens_children(ns, children, lc, <<t_pipe>>)
        ELSE IF kind \in {"commandsubstitution", "processsubstitution"}
        THEN IF ~(lc \/ n = 1) THEN TokenError("AssertionError")
             ELSE Joined(Tokens(<<IF kind = "commandsubstitution" THEN t_subst
                                  ELSE value \o <<"(">> >>),
                         <<>>,
                         Joined(IF n < 1 THEN Tokens(<<>>)
                                ELSE to_tokens_fun(ns, children[1], lc),
                                <<>>, Tokens(<<t_close>>)))
        ELSE IF kind = "headcommand"
        THEN Joined(Tokens(<<value>>), <<>>,
                    to_tokens_children(ns, children, lc, <<>>))
        ELSE IF kind = "flag"
        THEN flag_tokens(split_colons(value, <<>>),
                         to_tokens_children(ns, children, lc, <<>>))
        ELSE IF kind = "binarylogicop"
        THEN IF ~(lc \/ n > 1) THEN TokenError("AssertionError")
             ELSE IF lc /\ n < 2 THEN to_tokens_children(ns, children, lc, <<>>)
             ELSE Joined(Tokens(<<t_lparen>>), <<>>,
                         Joined(to_tokens_children(ns, children, lc, <<value>>),
                                <<>>, Tokens(<<t_rparen>>)))
        ELSE IF kind = "unarylogicop"
        THEN IF ~((lc \/ ns[node].associate = LEFT) \/ n = 1)
             THEN TokenError("AssertionError")
             ELSE IF lc /\ n < 1 THEN Tokens(<<value>>)
             ELSE IF ns[node].associate = RIGHT
             THEN Joined(Tokens(<<value>>), <<>>,
                         to_tokens_fun(ns, children[1], lc))
             ELSE Joined(IF n > 0 THEN to_tokens_fun(ns, children[1], lc)
                         ELSE Tokens(<<>>),
                         <<>>, Tokens(<<value>>))
        ELSE IF kind = "argument"
        THEN IF ~(lc \/ n = 0) THEN TokenError("AssertionError")
             ELSE Joined(Tokens(<<value>>), <<>>,
                         IF lc THEN to_tokens_children(ns, children, lc, <<>>)
                         ELSE Tokens(<<>>))
        ELSE Tokens(<<>>)

WithLoose(r, lc) == [exc |-> r.exc, toks |-> r.toks, loose |-> lc]

\* to_tokens(node, loose_constraints), the other options left at False
to_tokens(ns, loose_constraints) ==
    WithLoose(to_tokens_fun(ns, 1, loose_constraints), loose_constraints)

----------------------------------------------------------------------------
(* list_to_ast: the result is [exc, ns].                                   *)

H_NO_EXPAND == <<"<", "H", "_", "N", "O", "_", "E", "X", "P", "A", "N", "D", ">">>
V_NO_EXPAND == <<"<", "V", "_", "N", "O", "_", "E", "X", "P", "A", "N", "D", ">">>

Upper == <<"A", "B", "C", "D", "E", "F", "G", "H", "I", "J", "K", "L", "M",
           "N", "O", "P", "Q", "R", "S", "T", "U", "V", "W", "X", "Y", "Z">>
Lower == <<"a", "b", "c", "d", "e", "f", "g", "h", "i", "j", "k", "l", "m",
           "n", "o", "p", "q", "r", "s", "t", "u", "v", "w", "x", "y", "z">>

\* str.lower()
lower(w) ==
    [k \in 1..Len(w) |->
        IF InSeq(Upper, w[k]) THEN Lower[IndexOf(Upper, w[k])] ELSE w[k]]

\* the kinds of the tree, as they are spelled
KindSpelling ==
    [argument |-> <<"a", "r", "g", "u", "m", "e", "n", "t">>,
     flag |-> <<"f", "l", "a", "g">>,
     headcommand |-> <<"h", "e", "a", "d", "c", "o", "m", "m", "a", "n", "d">>,
     unarylogicop |-> <<"u", "n", "a", "r", "y", "l", "o", "g", "i", "c", "o", "p">>,
     binarylogicop |-> <<"b", "i", "n", "a", "r", "y", "l", "o", "g", "i", "c", "o", "p">>,
     pipeline |-> <<"p", "i", "p", "e", "l", "i", "n", "e">>,
     root |-> <<"r", "o", "o", "t">>]

\* the kind a prefix spells; "node" stands for any other spelling
kind_spelled(w) ==
    IF \E k \in DOMAIN KindSpelling : KindSpelling[k] = w
    THEN CHOOSE k \in DOMAIN KindSpelling : KindSpelling[k] = w
    ELSE "node"

\* symbol.split('_', 1): <<symbol>> when there is no '_'
split_once(symbol) ==
    IF ~contains(symbol, "_") THEN <<symbol>>
    ELSE <<SubSeq(symbol, 1, IndexOf(symbol, "_") - 1),
           SubSeq(symbol, IndexOf(symbol, "_") + 1, Len(symbol))>>

\* the type of an argument read under current: [exc, type]
listed_arg_type(ns, current, value) ==
    IF ns[current].kind = "flag"
    THEN IF getHeadCommand(ns, current) = None
         THEN [exc |-> "AttributeError", type |-> ""]
         ELSE [exc |-> "",
               type |-> get_flag_arg_type(
                            ns[getHeadCommand(ns, current)].value,
                            ns[current].value)]
    ELSE IF ns[current].kind = "headcommand"
    THEN type_check(FALSE, value, 0, {})
    ELSE [exc |-> "", type |-> "Unknown"]

\* the node a symbol stands for, of the given kind
listed_node(kind, value, arg_type) ==
    IF kind = "argument" THEN ArgumentNode(value, arg_type)
    ELSE IF kind = "flag" THEN FlagNode(value)
    ELSE IF kind = "headcommand" THEN HeadCommandNode(value)
    ELSE IF kind = "unarylogicop" THEN UnaryLogicOpNode(value)
    ELSE Node(kind, value)

Listed(ns) == [exc |-> "", ns |-> ns]
ListError(ns, e) == [exc |-> e, ns |-> ns]

RECURSIVE list_to_ast_from(_, _, _, _)
\* a symbol that is no marker, split in kind and value
list_to_ast_symbol(ns, current, list, i, kind, value, typed) ==
    IF kind = "argument" /\ typed.exc # "" THEN ListError(ns, typed.exc)
    ELSE list_to_ast_from(
            attach_to_tree(Alloc(ns, listed_node(kind, value, typed.type)),
                           NewId(ns), current),
            NewId(ns), list, i + 1)

\* the loop, at list[i] (i counts from 0)
list_to_ast_from(ns, current, list, i) ==
    IF i >= Len(list) \/ current = None THEN Listed(ns)
    ELSE IF list[i + 1] \in {V_NO_EXPAND, H_NO_EXPAND}
    THEN list_to_ast_from(ns, ns[current].parent, list, i + 1)
    ELSE IF Len(split_once(list[i + 1])) # 2 THEN ListError(ns, "ValueError")
    ELSE list_to_ast_symbol(
            ns, current, list, i,
            kind_spelled(lower(split_once(list[i + 1])[1])),
            split_once(list[i + 1])[2],
            listed_arg_type(ns, current, split_once(list[i + 1])[2]))

\* root = Node(kind="root", value="root"); for i in xrange(1, len(list))
list_to_ast(list) ==
    list_to_ast_from(<<Node("root", <<"r", "o", "o", "t">>)>>, 1, list, 1)

----------------------------------------------------------------------------
(* The inputs: parse trees as the parser builds them.                      *)

\* nodes every input holds: the command "ls", a substitution of it, a
\* parameter, a pipe, an operator and a reserved word
Library ==
    << RawWord(w_ls, FALSE),
       RawNode("command", <<>>, <<>>, <<1>>, TRUE, None),
       RawNode("commandsubstitution", <<>>, <<>>, <<>>, FALSE, 2),
       RawNode("parameter", <<>>, <<>>, <<>>, FALSE, None),
       RawNode("pipe", <<>>, <<>>, <<>>, FALSE, None),
       RawNode("operator", <<>>, <<>>, <<>>, FALSE, None),
       RawNode("reservedword", <<"d", "o">>, <<"d", "o">>, <<>>, FALSE, None) >>

\* where the library holds its node of a kind
LibraryNode(kind) == CHOOSE k \in 1..Len(Library) : Library[k].kind = kind
lib_command == LibraryNode("command")
lib_pipe == LibraryNode("pipe")
lib_operator == LibraryNode("operator")
lib_reserved == LibraryNode("reservedword")

w_subst == <<"$", "(", "l", "s", ")">>
w_param == <<"$", "v">>
w_assign == <<"v", "=", "x">>

SubstitutionWord == RawNode("word", w_subst, w_subst, <<3>>, TRUE, None)
ParameterWord == RawNode("word", w_param, w_param, <<4>>, TRUE, None)
AssignmentPart == RawNode("assignment", w_assign, w_assign, <<>>, TRUE, None)
RedirectPart == RawNode("redirect", <<>>, <<>>, <<>>, FALSE, None)

Words(ws) == {RawWord(w, FALSE) : w \in ws}

Heads == {w_find, w_ls, w_xargs}

\* the parts that may follow the first word
VocabFor(head) ==
    IF head = w_find
    THEN Words({w_lparen, w_rparen, w_bang, w_prune, w_o, w_name, w_exec,
                w_x, w_ls, w_semi, w_ddash, w_la, w_and})
         \cup {SubstitutionWord, RawWord(w_x, TRUE)}
    ELSE IF head = w_ls
    THEN Words({w_la, w_all, w_l, w_ddash, w_x, w_a, w_not, w_and, w_w, w_lw})
         \cup {RawWord(w_la, TRUE)}
    ELSE Words({w_ls, w_la, w_x, w_find, w_name})

\* the parts of the commands put under other constructs
SmallVocab ==
    Words({w_l}) \cup {SubstitutionWord, ParameterWord, AssignmentPart, RedirectPart}

SeqsUpTo(S, n) == UNION {[1..m -> S] : m \in 0..n}

\* the arena of a command of the given parts, the command node last
CommandArena(ps) ==
    Library \o ps
    \o <<RawNode("command", <<>>, <<>>,
                 [k \in 1..Len(ps) |-> Len(Library) + k], TRUE, None)>>

Constructs ==
    {"pipeline", "list", "for", "if", "while", "until", "function", "heredoc",
     "redirect", "assignment", "parameter"}

\* the parts of a construct around the command c
PartsOf(kind, n, c) ==
    IF kind = "pipeline"
    THEN IF n = 2 THEN <<c, lib_pipe>> ELSE <<c, lib_pipe, lib_command>>
    ELSE IF kind = "list"
    THEN IF n = 2 THEN <<c>> ELSE <<c, lib_operator, lib_command>>
    ELSE IF n = 2 THEN <<>> ELSE <<lib_reserved, c>>

Configs ==
    {[normalize_digits |-> TRUE, normalize_long_pattern |-> TRUE,
      recover_quotation |-> rq] : rq \in BOOLEAN}

InitCommon ==
    /\ nodes = <<Node("root", <<>>)>>
    /\ err = ""
    /\ tree0 = <<>>
    /\ pruned = <<>>
    /\ pruned2 = <<>>
    /\ tokens = <<>>
    /\ rebuilt = <<>>

\* one command: a first word and up to MaxParts more
InitCommand ==
    /\ opts \in Configs
    /\ \E head \in Heads :
         \E ps \in SeqsUpTo(VocabFor(head), MaxParts) :
            raw = CommandArena(<<RawWord(head, FALSE)>> \o ps)
    /\ rawRoot = Len(raw)

\* a short command under a pipeline, a list or a control-flow construct
InitConstruct ==
    /\ opts \in Configs
    /\ \E ps \in SeqsUpTo(SmallVocab, 1), kind \in Constructs, n \in {2, 3} :
         LET a == CommandArena(<<RawWord(w_ls, FALSE)>> \o ps)
         IN  raw = Append(a, RawNode(kind, <<>>, <<>>, PartsOf(kind, n, Len(a)),
                                     kind \in {"pipeline", "list"} \/ n = 3, None))
    /\ rawRoot = Len(raw)

\* the words of the longer find commands: parentheses around a flag, and
\* flags joined by operators
ChainVocabs == {Words({w_lparen, w_rparen, w_l}), Words({w_l, w_or, w_and})}

\* a find command of up to MaxChain words of one of these vocabularies
InitChain ==
    /\ opts \in Configs
    /\ \E V \in ChainVocabs :
         \E ps \in SeqsUpTo(V, MaxChain) :
            raw = CommandArena(<<RawWord(w_find, FALSE)>> \o ps)
    /\ rawRoot = Len(raw)

\* normalize_ast after the parse: normalize(tree[0], normalized_tree) is due
InitNormalize(input) ==
    /\ phase = "normalize"
    /\ InitCommon
    /\ outcome = "running"
    /\ input
    /\ calls = <<NormalizeFrame(rawRoot, 1, "")>>

----------------------------------------------------------------------------
(* Trees handed to prune_ast and to_tokens by a caller that builds them    *)
(* node by node with attach_to_tree, as list_to_ast does.                  *)

\* the nodes a new node may be attached to: the root and, from there on,
\* the last child
RECURSIVE right_path(_, _)
right_path(ns, n) ==
    {n} \cup (IF ns[n].children = <<>> THEN {}
              ELSE right_path(ns, Last(ns[n].children)))

\* the nodes that may come under a node
Attachable(ns, p) ==
    LET kind == ns[p].kind
        n == Len(ns[p].children)
    IN  IF kind = "root"
        THEN IF n = 0 THEN {HeadCommandNode(w_find), PipelineNode} ELSE {}
        ELSE IF kind = "pipeline" THEN {HeadCommandNode(w_ls)}
        ELSE IF kind = "headcommand"
        THEN {FlagNode(w_name), FlagNode(w_la), FlagNode(w_colons),
              ArgumentNode(w_x, "File"),
              ArgumentNode(w_braces, "ReservedWord"), UnaryLogicOpNode(w_bang),
              BinaryLogicOpNode(w_or)}
        ELSE IF kind = "flag"
        THEN IF n = 0 /\ ns[p].value = w_name
             THEN {ArgumentNode(w_x, "Pattern"), ArgumentNode(NUM, "Pattern")}
             ELSE {}
        ELSE IF kind = "unarylogicop"
        THEN IF n = 0 THEN {FlagNode(w_la)} ELSE {}
        ELSE IF kind = "binarylogicop" THEN {FlagNode(w_la), FlagNode(w_l)}
        ELSE {}

InitBuild ==
    /\ phase = "build"
    /\ InitCommon
    /\ outcome = "tree"
    /\ opts \in Configs
    /\ raw = <<>>
    /\ rawRoot = None
    /\ calls = <<>>

codecVars == <<opts, raw, rawRoot, calls, outcome, err>>

BuildAttach ==
    /\ phase = "build"
    /\ Len(nodes) <= MaxBuild
    /\ \E p \in right_path(nodes, 1) :
         \E rec \in Attachable(nodes, p) :
            nodes' = attach_to_tree(Alloc(nodes, rec), NewId(nodes), p)
    /\ UNCHANGED <<codecVars, treeVars>>

\* a tree is there: normalize_ast returned it, or the caller built it
HasTree ==
    \/ phase = "normalize" /\ outcome = "tree"
    \/ phase = "build" /\ Len(nodes) > 1

\* pruned = prune_ast(tree)
PruneAst ==
    /\ HasTree
    /\ tree0' = prune_ast(nodes).input
    /\ pruned' = prune_ast(nodes).result
    /\ phase' = "pruned"
    /\ UNCHANGED <<codecVars, nodes, pruned2, tokens, rebuilt>>

\* pruned2 = prune_ast(pruned)
PruneAgain ==
    /\ phase = "pruned"
    /\ pruned2' = prune_ast(pruned).result
    /\ phase' = "pruned2"
    /\ UNCHANGED <<codecVars, nodes, tree0, pruned, tokens, rebuilt>>

\* tokens = to_tokens(tree, loose_constraints)
ToTokens ==
    /\ phase = "pruned2"
    /\ \E loose_constraints \in BOOLEAN :
         tokens' = to_tokens(nodes, loose_constraints)
    /\ phase' = "tokens"
    /\ UNCHANGED <<codecVars, nodes, tree0, pruned, pruned2, rebuilt>>

\* rebuilt = list_to_ast(tokens), when to_tokens returned
ListToAst ==
    /\ phase = "tokens"
    /\ tokens.exc = ""
    /\ rebuilt' = list_to_ast(tokens.toks)
    /\ phase' = "rebuilt"
    /\ UNCHANGED <<codecVars, nodes, tree0, pruned, pruned2, tokens>>

Init ==
    \/ InitNormalize(InitCommand)
    \/ InitNormalize(InitConstruct)
    \/ InitNormalize(InitChain)
    \/ InitBuild

Next ==
    \/ NormalizeWord
    \/ NormalizePipeline
    \/ NormalizeList
    \/ NormalizeSubstitution
    \/ NormalizeCommand
    \/ NormalizeParts
    \/ NormalizeUnsupported
    \/ NormalizeIgnored
    \/ NormalizeLoop
    \/ ScanUnaryOp
    \/ ScanBinaryOp
    \/ ScanOperatorFlag
    \/ ScanDoubleDash
    \/ ScanHeadCommand
    \/ ScanFlagArgument
    \/ ArgumentReturn
    \/ ScanEmbedded
    \/ EmbeddedReturn
    \/ ScanFlag
    \/ ScanUtility
    \/ UtilityReturn
    \/ ScanPositional
    \/ ScanOtherPart
    \/ ScanEnd
    \/ ParenthesesStep
    \/ ParenthesesEnd
    \/ DeferredUnary
    \/ DeferredBinary
    \/ CommandReturn
    \/ BuildAttach
    \/ PruneAst
    \/ PruneAgain
    \/ ToTokens
    \/ ListToAst

Spec == Init /\ [][Next]_vars

----------------------------------------------------------------------------
(* What the properties below are stated with.                              *)

\* normalize_ast was called on a parse tree and has ended
Normalized == rawRoot # None /\ outcome # "running"
\* it returned a tree
Returned == rawRoot # None /\ outcome = "tree"

\* the input is a single command
IsCommandInput == rawRoot # None /\ raw[rawRoot].kind = "command"
\* its words, the command name first
InputWords ==
    [k \in 1..Len(raw[rawRoot].parts) |-> raw[raw[rawRoot].parts[k]].word]
CommandOf(head) == IsCommandInput /\ InputWords[1] = head
WordsAfter(k) == {InputWords[m] : m \in (k + 1)..Len(InputWords)}

RECURSIVE descendants(_, _)
descendants(ns, n) ==
    {n} \cup UNION {descendants(ns, ns[n].children[k]) :
                        k \in 1..Len(ns[n].children)}

\* the head command attached under the root
TopHead == nodes[1].children[1]
HasTopHead ==
    /\ Len(nodes[1].children) = 1
    /\ nodes[TopHead].kind = "headcommand"

NoParenthesisLeft ==
    \A n \in descendants(nodes, 1) :
        nodes[n].value \notin {w_lparen, w_rparen}

\* ws has as many ")" as "(", none before its "("
RECURSIVE balanced(_, _)
balanced(ws, depth) ==
    IF ws = <<>> THEN depth = 0
    ELSE IF Head(ws) = w_lparen THEN balanced(Tail(ws), depth + 1)
    ELSE IF Head(ws) = w_rparen THEN depth > 0 /\ balanced(Tail(ws), depth - 1)
    ELSE balanced(Tail(ws), depth)

\* find with parentheses around flags that take no argument
FindWithParentheses ==
    /\ CommandOf(w_find)
    /\ WordsAfter(1) \subseteq {w_lparen, w_rparen, w_la}
    /\ WordsAfter(1) \cap {w_lparen, w_rparen} # {}

\* parent, children and sibling pointers say the same everywhere under n
LinksAgree(ns, n) ==
    \A p \in descendants(ns, n) :
        \A k \in 1..Len(ns[p].children) :
            /\ ns[ns[p].children[k]].parent = p
            /\ ns[ns[p].children[k]].lsb =
                    IF k = 1 THEN None ELSE ns[p].children[k - 1]
            /\ ns[ns[p].children[k]].rsb =
                    IF k = Len(ns[p].children) THEN None
                    ELSE ns[p].children[k + 1]

\* kinds, values and child order, node by node
RECURSIVE shape(_, _)
shape(ns, n) ==
    [kind |-> ns[n].kind, value |-> ns[n].value,
     children |-> [k \in 1..Len(ns[n].children) |->
                      shape(ns, ns[n].children[k])]]

\* what strict serialization asks of a tree
Canonical(ns) ==
    /\ Len(ns[1].children) = 1
    /\ LinksAgree(ns, 1)
    /\ \A n \in descendants(ns, 1) :
        /\ ns[n].kind \in {"pipeline", "binarylogicop"} =>
                Len(ns[n].children) > 1
        /\ ns[n].kind = "unarylogicop" => Len(ns[n].children) = 1
        /\ ns[n].kind = "argument" => Len(ns[n].children) = 0

NoEmbeddedCommand(ns) ==
    \A n \in descendants(ns, 1) :
        ns[n].kind = "flag" =>
            /\ Len(split_colons(ns[n].value, <<>>)) = 1
            /\ \A k \in 1..Len(ns[n].children) :
                    ns[ns[n].children[k]].kind = "argument"

\* the same tree, node for node, sibling pointers included
SameTree(a, b) ==
    /\ descendants(a, 1) = descendants(b, 1)
    /\ \A n \in descendants(a, 1) :
        /\ a[n].kind = b[n].kind
        /\ a[n].value = b[n].value
        /\ a[n].children = b[n].children
        /\ a[n].lsb = b[n].lsb
        /\ a[n].rsb = b[n].rsb

NoPrunableLeft(ns) == \A n \in descendants(ns, 1) : ~prunable(ns, n)

----------------------------------------------------------------------------
(* The properties.                                                         *)

\* C1: a find command with well-balanced "(" and ")" is returned as a tree
\* in which no node valued "(" or ")" is left under the head command.
C1_BalancedParenthesesResolved ==
    (Normalized /\ FindWithParentheses /\ balanced(InputWords, 0))
        => (outcome = "tree" /\ NoParenthesisLeft)

\* C2: a find command with unbalanced parentheses is repaired: a tree is
\* returned, no "(" or ")" is left in it, and every other word of the
\* command is still under the head command.
C2_UnbalancedParenthesesRepaired ==
    (Normalized /\ FindWithParentheses /\ ~balanced(InputWords, 0))
        => /\ outcome = "tree"
           /\ NoParenthesisLeft
           /\ HasTopHead
           /\ \A w \in WordsAfter(1) \ {w_lparen, w_rparen} :
                \E n \in descendants(nodes, TopHead) : nodes[n].value = w

\* C3: in every tree normalize_ast returns, each child's parent is the node
\* that lists it, and the sibling pointers follow the order of the children.
C3_LinksAgreeInReturnedTree == Returned => LinksAgree(nodes, 1)

\* C4: a canonical tree without embedded commands, serialized in strict mode
\* and read back by list_to_ast, comes back with the same kinds, values and
\* child order.
C4_RoundTrip ==
    (phase = "rebuilt" /\ ~tokens.loose /\ Canonical(nodes)
        /\ NoEmbeddedCommand(nodes))
        => (rebuilt.exc = "" /\ shape(rebuilt.ns, 1).children = shape(nodes, 1).children)

\* C5: prune_ast applied twice gives what it gives applied once; once is
\* enough to leave no argument but the ReservedWord ones; and neither call
\* changes the tree it is given.
C5_PruneIdempotent ==
    phase \in {"pruned2", "tokens", "rebuilt"} =>
        /\ SameTree(pruned2, pruned)
        /\ NoPrunableLeft(pruned)
        /\ LinksAgree(nodes, 1) => LinksAgree(pruned, 1)
        /\ tree0 = nodes
        /\ prune_ast(pruned).input = pruned

\* C5, the case: a node had two removable arguments side by side and a
\* ReservedWord argument; the former are gone, the latter is kept.
C5_Pruned ==
    /\ phase = "pruned2"
    /\ \E p \in descendants(nodes, 1) :
        /\ \E k \in 1..(Len(nodes[p].children) - 1) :
                /\ prunable(nodes, nodes[p].children[k])
                /\ prunable(nodes, nodes[p].children[k + 1])
        /\ \E k \in 1..Len(nodes[p].children) :
                /\ nodes[nodes[p].children[k]].arg_type = "ReservedWord"
                /\ pruned[p].children = <<nodes[p].children[k]>>

\* a clustered short-option token: one dash, then two characters or more
ClusterToken(w) == Len(w) > 2 /\ w[1] = "-" /\ w[2] # "-"

\* the words the scan takes for logic operators
OperatorWords ==
    binary_logic_operators \cup right_associate_unary_logic_operators
    \cup left_associate_unary_logic_operators

\* the children of the head command are flags of these values, in order
HeadFlags(values) ==
    /\ HasTopHead
    /\ Len(nodes[TopHead].children) = Len(values)
    /\ \A k \in 1..Len(values) :
        /\ nodes[nodes[TopHead].children[k]].kind = "flag"
        /\ nodes[nodes[TopHead].children[k]].value = values[k]

\* C6: under a command whose flags are split (every command but find), a
\* long option is attached as one Flag, and a cluster of k short options as
\* k Flags, in order, each valued "-" and its character.
C6_OneFlagPerCharacter ==
    (Normalized /\ IsCommandInput /\ Len(InputWords) = 2
        /\ InputWords[1] # w_find /\ InputWords[2] \notin OperatorWords)
        => /\ is_double_option(InputWords[2]) =>
                (outcome = "tree" /\ HeadFlags(<<InputWords[2]>>))
           /\ ClusterToken(InputWords[2]) =>
                /\ outcome = "tree"
                /\ HeadFlags([k \in 1..(Len(InputWords[2]) - 1) |->
                                <<"-", InputWords[2][k + 1]>>])

\* some node of the kind has the word for value
Attached(kind, word) ==
    \E n \in descendants(nodes, 1) :
        nodes[n].kind = kind /\ nodes[n].value = word

\* C7: once "--" is consumed (here after the command name and flags that
\* take no argument), every later word of the command is attached as an
\* Argument, never as a Flag, and the command is still returned.
C7_ArgumentsAfterDoubleDash ==
    \A k \in 2..(IF Normalized /\ IsCommandInput THEN Len(InputWords) - 1
                 ELSE 0) :
        (InputWords[k] = w_ddash
            /\ \A m \in 2..(k - 1) : InputWords[m] \in {w_l, w_all}) =>
            /\ outcome = "tree"
            /\ \A m \in (k + 1)..Len(InputWords) :
                /\ Attached("argument", InputWords[m])
                /\ ~Attached("flag", InputWords[m])

\* the kinds normalize_ast is to reject
RejectedKinds ==
    {"for", "if", "while", "until", "function", "heredoc", "redirect",
     "assignment", "parameter"}

\* C8: when the traversal reaches a node of a kind that is not supported,
\* with or without a parts list, normalize_ast returns the failure value
\* and no tree.
C8_UnsupportedRejected ==
    (Normalized /\ raw[rawRoot].kind \in RejectedKinds) => outcome = "none"

\* C9: whatever inconsistency normalize_ast meets, it returns to its
\* caller, with a tree or with the failure value: it neither ends the
\* process nor lets an exception through.
C9_ReturnsToCaller == Normalized => outcome \in {"tree", "none"}

Delimiters == {w_semi, w_plus}

\* the words after "find -exec"
Embedded == SubSeq(InputWords, 3, Len(InputWords))
\* where the first ";" or "+" is among them, 0 when there is none
FirstDelimiter ==
    IF \E k \in 1..Len(Embedded) : Embedded[k] \in Delimiters
    THEN CHOOSE k \in 1..Len(Embedded) :
            /\ Embedded[k] \in Delimiters
            /\ \A m \in 1..(k - 1) : Embedded[m] \notin Delimiters
    ELSE 0

\* the value -exec is to end with
ExecValue ==
    w_exec \o <<":", ":">>
    \o (IF FirstDelimiter = 0 THEN w_semi ELSE Embedded[FirstDelimiter])

\* C10: after -exec, the words up to the first ";" or "+" (all of them when
\* there is none) are the embedded command under the Flag, whose value gets
\* "::" and the delimiter (";" when there is none), and the scan resumes
\* after the delimiter at the enclosing head command.
C10_EmbeddedCommandSliced ==
    (Normalized /\ CommandOf(w_find) /\ Len(InputWords) >= 3
        /\ InputWords[2] = w_exec
        /\ \A k \in 1..Len(Embedded) :
                Embedded[k] \in {w_ls, w_x, w_la} \cup Delimiters)
        => /\ outcome = "tree"
           /\ \E f \in descendants(nodes, 1) :
                /\ nodes[f].kind = "flag"
                /\ nodes[f].value = ExecValue
                /\ \A k \in 1..Len(Embedded) :
                    IF FirstDelimiter = 0 \/ k < FirstDelimiter
                    THEN \E n \in descendants(nodes, f) \ {f} :
                            nodes[n].value = Embedded[k]
                    ELSE k > FirstDelimiter =>
                            \E n \in descendants(nodes, 1) \ descendants(nodes, f) :
                                nodes[n].value = Embedded[k]

\* C11: to_tokens with loose_constraints set returns a token sequence for
\* every tree, whatever the child counts and the Flag values are; it raises
\* nothing.
C11_LooseNeverRaises ==
    (phase \in {"tokens", "rebuilt"} /\ tokens.loose) => tokens.exc = ""

\* the types of the positional slots still open, required and optional
OpenSlotTypes(arg_status) ==
    open_types(arg_status.nonoptional) \cup open_types(arg_status.optional)

\* the scan is at a word that goes to cmd_arg_type_check
AtPositional ==
    /\ InScan
    /\ Ambiguous
    /\ ~IsFlagWord
    /\ ~expecting(Top.arg_status, "Utility")

\* C12: whenever a positional argument is classified, the types handed to
\* the classifier are the types of the slots, required and optional alike,
\* that are list-typed or not yet filled.
C12_AllowedTypesAreOpenSlots ==
    AtPositional => allowed_types(Top.arg_status) = OpenSlotTypes(Top.arg_status)

\* C13: a positional word that arrives at a head command when no slot type
\* is on offer is attached as an Argument of type Unknown, and the
\* command's tree is returned.
C13_UnknownArgumentAttached ==
    (Normalized /\ IsCommandInput /\ Len(InputWords) = 2
        /\ InputWords[2] = w_x
        /\ raw[raw[rawRoot].parts[2]].src = w_x
        /\ ~expecting(get_arg_types(InputWords[1]), "Utility")
        /\ allowed_types(get_arg_types(InputWords[1])) = {})
        => /\ outcome = "tree"
           /\ HasTopHead
           /\ Len(nodes[TopHead].children) = 1
           /\ nodes[nodes[TopHead].children[1]].kind = "argument"
           /\ nodes[nodes[TopHead].children[1]].value = w_x
           /\ nodes[nodes[TopHead].children[1]].arg_type = "Unknown"

\* the parser's node of the k-th word of the command
InputNode(k) == raw[raw[rawRoot].parts[k]]

\* C14: the recover_quotation argument decides where the value of an
\* Argument comes from (here the argument of find -name): from the source
\* span when it is set and the span begins or ends with a quote mark, from
\* the parser's unquoted word when it is not set.
C14_QuoteRecoveryFollowsOption ==
    (Returned /\ CommandOf(w_find) /\ Len(InputWords) = 3
        /\ InputWords[2] = w_name /\ InputWords[3] = w_x)
        => \E f, a \in descendants(nodes, 1) :
            /\ nodes[f].kind = "flag"
            /\ nodes[f].children = <<a>>
            /\ nodes[a].kind = "argument"
            /\ nodes[a].value =
                    IF opts.recover_quotation /\ with_quotation(InputNode(3))
                    THEN InputNode(3).src
                    ELSE InputNode(3).word

\* the flag the scan has just attached under the head command from the
\* word before, None when it did not
FlagJustAttached ==
    IF ~(InCommand("scan") /\ Top.ind >= 1 /\ Len(Top.head_commands) = 1)
    THEN None
    ELSE LET word == raw[Top.parts[Top.ind]].word
             head == Top.head_commands[1]
             flag == getRightChild(nodes, head)
         IN  IF /\ raw[Top.parts[Top.ind]].kind = "word"
                /\ startswith(word, <<"-">>)
                /\ word \notin OperatorWords \cup {w_ddash}
                /\ flag # None
                /\ nodes[flag].kind = "flag"
                /\ nodes[flag].children = <<>>
                /\ nodes[flag].value \in {word, <<"-", Last(word)>>}
             THEN flag
             ELSE None

\* C15: once a Flag is attached, from a token of its own or as one of the
\* flags of a split cluster, the grammar is asked about the Flag's own
\* spelling: when it declares an argument of type T, the attachment point
\* is the Flag and one Argument of type T is expected; when it does not,
\* the attachment point is still the head command.
C15_FlagArgumentExpected ==
    FlagJustAttached # None =>
        LET flag == FlagJustAttached
            head == Top.head_commands[1]
            T == get_flag_arg_type(nodes[head].value, nodes[flag].value)
        IN  IF T # ""
            THEN Top.ap = flag /\ Top.kinds = <<"argument">> /\ Top.types = <<T>>
            ELSE Top.ap = head

\* C16: for a head command other than find (here ls) the children the scan
\* attached are returned as they are: no operator node has taken a child.
C16_ResolverOnlyUnderFind ==
    (Returned /\ CommandOf(w_ls)) =>
        \A n \in descendants(nodes, 1) :
            nodes[n].kind \in {"unarylogicop", "binarylogicop"} =>
                nodes[n].children = <<>>

\* the deepest nesting of the parentheses of ws
RECURSIVE nesting(_, _)
nesting(ws, depth) ==
    IF ws = <<>> THEN 0
    ELSE LET d == IF Head(ws) = w_lparen THEN depth + 1
                  ELSE IF Head(ws) = w_rparen THEN depth - 1
                  ELSE depth
             rest == nesting(Tail(ws), d)
         IN  IF d > rest THEN d ELSE rest

\* how many nodes of the tree are flags of this value
FlagCount(w) ==
    Cardinality({n \in descendants(nodes, 1) :
                    nodes[n].kind = "flag" /\ nodes[n].value = w})
\* how many words of the command are this word
WordCount(w) == Cardinality({k \in 2..Len(InputWords) : InputWords[k] = w})

\* C17: a find command whose well-balanced parentheses are nested is
\* resolved without failing: the group that replaced an inner pair is an
\* operand of the enclosing level, every flag of the command is still in
\* the tree, and no operator node is left without the operands of its pair.
C17_InnerGroupAtomic ==
    (Normalized /\ CommandOf(w_find)
        /\ WordsAfter(1) \subseteq {w_lparen, w_rparen, w_l}
        /\ balanced(InputWords, 0) /\ nesting(InputWords, 0) >= 2)
        => /\ outcome = "tree"
           /\ FlagCount(w_l) = WordCount(w_l)
           /\ \A n \in descendants(nodes, 1) :
                nodes[n].kind = "binarylogicop" =>
                    Len(nodes[n].children) <= WordCount(w_l)

\* every unary operator of the command has a word on the side it adopts
OperandPresent ==
    \A k \in 2..Len(InputWords) :
        /\ InputWords[k] \in right_associate_unary_logic_operators =>
                k < Len(InputWords)
        /\ InputWords[k] \in left_associate_unary_logic_operators => k > 2

\* C18: in the tree returned for a find command whose unary operators all
\* have a sibling on the side they adopt, every UnaryLogicOp has exactly
\* one child.
C18_UnaryOperatorHasOneChild ==
    (Returned /\ CommandOf(w_find) /\ OperandPresent) =>
        \A n \in descendants(nodes, 1) :
            nodes[n].kind = "unarylogicop" => Len(nodes[n].children) = 1

\* find x_1 op_1 x_2 ... : flags at the even places, -or or -and between
IsChain ==
    /\ CommandOf(w_find)
    /\ Len(InputWords) \in {4, 6}
    /\ \A k \in 2..Len(InputWords) :
            IF k % 2 = 0 THEN InputWords[k] = w_l
            ELSE InputWords[k] \in {w_or, w_and}

\* the node the scan made of the k-th word of a chain
ChainNode(k) == k + 1

\* the children of a node are these, each with the node for parent
ChildrenAre(n, cs) ==
    /\ nodes[n].children = cs
    /\ \A k \in 1..Len(cs) : nodes[cs[k]].parent = n

\* C19: over the run x_1 op_1 x_2 ... without parentheses each operator
\* takes its left and right siblings as children; operators of one value
\* end as one node whose children are x_1 .. x_n in order, and when a
\* different operator follows, the subtree built so far is its left child.
C19_BinaryChainGrouped ==
    (Normalized /\ IsChain) =>
        /\ outcome = "tree"
        /\ HasTopHead
        /\ Len(nodes[TopHead].children) = 2
        /\ nodes[nodes[TopHead].children[1]].value = w_dot
        /\ nodes[TopHead].children[2] = ChainNode(Len(InputWords) - 1)
        /\ \A k \in {2, 4, 6} \cap (1..Len(InputWords)) :
                /\ nodes[ChainNode(k)].kind = "flag"
                /\ nodes[ChainNode(k)].children = <<>>
        /\ \A k \in {3, 5} \cap (1..Len(InputWords)) :
                /\ nodes[ChainNode(k)].kind = "binarylogicop"
                /\ nodes[ChainNode(k)].value = InputWords[k]
        /\ IF Len(InputWords) = 4
           THEN ChildrenAre(ChainNode(3), <<ChainNode(2), ChainNode(4)>>)
           ELSE IF InputWords[3] = InputWords[5]
           THEN ChildrenAre(ChainNode(5),
                            <<ChainNode(2), ChainNode(4), ChainNode(6)>>)
           ELSE /\ ChildrenAre(ChainNode(3), <<ChainNode(2), ChainNode(4)>>)
                /\ ChildrenAre(ChainNode(5), <<ChainNode(3), ChainNode(6)>>)

\* C19, the case: a chain of three flags joined by one operator twice was
\* resolved.
C19_ChainFlattened ==
    /\ Returned
    /\ IsChain
    /\ Len(InputWords) = 6
    /\ InputWords[3] = InputWords[5]
    /\ Len(nodes[ChainNode(5)].children) = 3

\* C20: in every tree returned for a find command, every BinaryLogicOp has
\* two children or more.
C20_BinaryOperatorHasTwoChildren ==
    (Returned /\ CommandOf(w_find)) =>
        \A n \in descendants(nodes, 1) :
            nodes[n].kind = "binarylogicop" => Len(nodes[n].children) >= 2

====
